---- MODULE Spec2Model ----
(***************************************************************************)
(* Model of the Mode 5 document summarization pipeline:                    *)
(*   services/chunking.py   plan_chunk_word_spans, chunk_document          *)
(*   services/summarizer.py summarize_chunk, summarize_chunks              *)
(*   services/merge.py      merge_partial_summaries                        *)
(*   logic/mode_5.py        Mode5._process_core, _direct_summarize,        *)
(*                          _chunked_summarize, _clean_summary_output      *)
(*   services/baseline.py   compute_baseline_metrics                       *)
(*   services/ingestion.py  extract_text (the minimum length)              *)
(*   services/formatter.py  format_output                                  *)
(*   handlers/summarize_document.py  the per_row fan-out                   *)
(*   utils/generator.py     GroqGenerator.generate                         *)
(*   utils/cache.py         SimpleCache                                    *)
(*   utils/validator.py     calculate_max_tokens                           *)
(*                                                                         *)
(* Six specifications share the variables:                                 *)
(*   SpecPlan    the chunk planner as a pure function of its inputs        *)
(*   SpecMerge   the merger applied to a permuted list of partials         *)
(*   SpecResolve the ingestion and target resolution of a request          *)
(*   Spec        one run of the pipeline (direct or chunked path)          *)
(*   SpecRows    concurrent process_raw_text calls on one Mode5 instance   *)
(*   SpecGen     two successive generate calls with cache and retries      *)
(***************************************************************************)
EXTENDS Integers, Sequences, FiniteSets, TLC

\* ------------------------------------------------------------------------
\* Values shared by the specifications
\* ------------------------------------------------------------------------

\* Python's None, and a value that is present: an optional value is the empty
\* or the one-element sequence.
None == << >>

Some(x) == <<x>>

\* The value of an optional that is present
Get(opt) == opt[1]

Min(a, b) == IF a <= b THEN a ELSE b

Max(a, b) == IF a >= b THEN a ELSE b

Abs(a) == IF a >= 0 THEN a ELSE 0 - a

\* int(n * p / 100) for n >= 0 and a percentage p >= 0: Python's int() of the
\* float product truncates, and agrees with the integer quotient on every
\* value the model uses (n <= 3000, p in {0, 10, 12, 25, 40, 50, 92, 99, 108}).
IntPct(n, p) == (n * p) \div 100

\* ------------------------------------------------------------------------
\* services/chunking.py
\* ------------------------------------------------------------------------

\* config/settings.py
CHUNK_TARGET_WORDS == 1000

\* config/settings.py: CHUNK_OVERLAP_PCT = 0.12, as a percentage
CHUNK_OVERLAP_PCT == 12

\* Bounds of the planner's inputs
MaxTotalWords == 260

MaxLargeHundreds == 34

\* Overlap fractions in [0, 1), as percentages
OverlapChoices == {0, 10, CHUNK_OVERLAP_PCT, 50, 99}

\* The planner's inputs <<total_words, target_words, overlap_pct>>: every small
\* word count with nominal sizes below, at and above the guardrail of 50, and
\* the multiples of 100 up to a few chunks of the default size.
PlanInputs ==
    ((0 .. MaxTotalWords) \X {10, 50, 64, 100} \X OverlapChoices)
    \cup ({100 * k : k \in 3 .. MaxLargeHundreds}
          \X {CHUNK_TARGET_WORDS} \X (OverlapChoices \ {99}))

\* The guardrail applied as a cap instead of a floor
EffectiveChunkTargetCapped(target_words) == Min(50, target_words)

\* target = max(50, target_words)
EffectiveChunkTarget(target_words) == Max(50, target_words)

\* The stride with the overlap added to the chunk size instead of subtracted
StrideOverlapAdded(target, overlap_pct) ==
    Max(10, target + IntPct(target, overlap_pct))

\* stride = max(10, target - int(target * overlap_pct))
Stride(target, overlap_pct) == Max(10, target - IntPct(target, overlap_pct))

\* The while loop of plan_chunk_word_spans, from position start with the spans
\* appended so far.
RECURSIVE StrideWalk(_, _, _, _, _)
StrideWalk(start, spans, total_words, target, stride) ==
    IF start < total_words
    THEN LET end == Min(total_words, start + target)
             appended == Append(spans, <<start, end>>)
         IN IF end >= total_words
            THEN appended
            ELSE StrideWalk(start + stride, appended, total_words, target, stride)
    ELSE spans

\* The spans of the walk before the tail-merge step
NaiveSpans(total_words, target_words, overlap_pct) ==
    LET target == EffectiveChunkTarget(target_words)
    IN StrideWalk(0, << >>, total_words, target, Stride(target, overlap_pct))

\* The planner without the tail-merge step
TailMergeSkipped(spans, target) == spans

\* The tail-merge step with a threshold of 80% of the target instead of 40%
TailMergeWide(spans, target) ==
    IF Len(spans) > 1
    THEN LET n == Len(spans)
             last == spans[n]
             prev == spans[n - 1]
         IN IF (last[2] - last[1]) < IntPct(target, 80)
            THEN [i \in 1 .. n - 1 |->
                    IF i = n - 1 THEN <<prev[1], last[2]>> ELSE spans[i]]
            ELSE spans
    ELSE spans

\* Merge small tail if last span too short (<40% of target) and we have >1 spans
TailMerge(spans, target) ==
    IF Len(spans) > 1
    THEN LET n == Len(spans)
             last == spans[n]
             prev == spans[n - 1]
         IN IF (last[2] - last[1]) < IntPct(target, 40)
            THEN [i \in 1 .. n - 1 |->
                    IF i = n - 1 THEN <<prev[1], last[2]>> ELSE spans[i]]
            ELSE spans
    ELSE spans

plan_chunk_word_spans(total_words, target_words, overlap_pct) ==
    IF total_words <= 0
    THEN << >>
    ELSE LET target == EffectiveChunkTarget(target_words)
         IN TailMerge(StrideWalk(0, << >>, total_words, target,
                                 Stride(target, overlap_pct)), target)

\* Chunk ids are uuid4 prefixes: distinct values unrelated to the index. The
\* model names the id of the chunk at position idx of a document by a salt.
IdSpace == 7

ChunkId(salt, idx) == 100 + ((idx + salt) % IdSpace)

\* chunk_document: one Chunk per span, index = position, word_count = words of
\* the slice.
chunk_document(total_words, target_words, overlap_pct, salt) ==
    LET spans == plan_chunk_word_spans(total_words, target_words, overlap_pct)
    IN [i \in 1 .. Len(spans) |->
          [id |-> ChunkId(salt, i - 1),
           index |-> i - 1,
           word_count |-> spans[i][2] - spans[i][1]]]

\* ------------------------------------------------------------------------
\* Generated text
\* ------------------------------------------------------------------------

\* A text is a sequence of whitespace-separated words. The words that matter
\* to the pipeline: a plain word, a word ending a sentence, a dangling
\* conjunction, the boilerplate lead-in "Summary:" and a list marker.
Words == {"w", "w.", "and", "Summary:", "-"}

\* Bound on the length of a generated text, in words
MaxTextLen == 2

\* Bound on the length of the longer generated texts, which are made of
\* complete sentences only
MaxLongTextLen == 8

LongTexts == {[i \in 1 .. k |-> "w."] : k \in (MaxTextLen + 1) .. MaxLongTextLen}

\* utils/generator.py: generate returns the stripped content and raises on an
\* empty one, so a generated text has at least one word.
GeneratedTexts == UNION {[1 .. k -> Words] : k \in 1 .. MaxTextLen} \cup LongTexts

\* len(text.split())
WordCount(text) == Len(text)

\* Truncation detection: a non-empty text is truncated if its last character
\* is not terminal punctuation, or its final word is a dangling conjunction,
\* or it is cut off inside a list item or heading marker.
is_summary_truncated(text) ==
    /\ Len(text) > 0
    /\ LET last == text[Len(text)]
       IN \/ last # "w."
          \/ last = "and"
          \/ last = "-"

\* Completion repair, local: hard trim to the last complete sentence.
RECURSIVE complete_truncated_summary(_)
complete_truncated_summary(text) ==
    IF Len(text) = 0 \/ text[Len(text)] = "w."
    THEN text
    ELSE complete_truncated_summary(SubSeq(text, 1, Len(text) - 1))

\* cleaned.lstrip(":- \t\n"): leading words made of these characters go
RECURSIVE LStripMarkers(_)
LStripMarkers(text) ==
    IF Len(text) > 0 /\ text[1] = "-"
    THEN LStripMarkers(Tail(text))
    ELSE text

\* Mode5._clean_summary_output: one boilerplate prefix removed from the start,
\* then leading colons and dashes.
clean_summary_output(text) ==
    LET unprefixed == IF Len(text) > 0 /\ text[1] = "Summary:"
                      THEN Tail(text)
                      ELSE text
    IN LStripMarkers(unprefixed)

\* The truncation step of an enforcement attempt, without the repair
RepairSkipped(summary) == summary

\* if is_summary_truncated(summary): summary = complete_truncated_summary(summary)
RepairIfTruncated(summary) ==
    IF is_summary_truncated(summary)
    THEN complete_truncated_summary(summary)
    ELSE summary

\* ------------------------------------------------------------------------
\* services/summarizer.py
\* ------------------------------------------------------------------------

\* summarize_chunks(..., concurrency: int = 3)
Concurrency == 3

\* Bound on the words of a per-chunk summary
MaxPartialWords == 1

\* The PartialSummary of summarize_chunk with the index counted from 1
PartialSummaryOneBased(chunk, content) ==
    [chunk_id |-> chunk.id,
     index |-> chunk.index + 1,
     text |-> content,
     word_count |-> content.words]

\* summarize_chunk: the PartialSummary built from the chunk and the content
\* generated for it. The content of a per-chunk summary is abstracted to the
\* chunk whose text was summarized and the number of words generated.
PartialSummary(chunk, content) ==
    [chunk_id |-> chunk.id,
     index |-> chunk.index,
     text |-> content,
     word_count |-> content.words]

\* The semaphore letting a task in when no slot is left
SemaphoreOpenAtZero(value) == value >= 0

\* asyncio.Semaphore: acquire proceeds only while the value is positive
SemaphoreOpen(value) == value > 0

RECURSIVE FirstFree(_, _)
FirstFree(results, i) ==
    IF i > Len(results) THEN Len(results)
    ELSE IF results[i] = None THEN i
    ELSE FirstFree(results, i + 1)

\* The result stored in the next free slot, in completion order
StoreResultAppended(results, chunk, summary) ==
    [results EXCEPT ![FirstFree(results, 1)] = Some(summary)]

\* results[c.index] = summary (slot i of the model is results[i - 1])
StoreResult(results, chunk, summary) ==
    [results EXCEPT ![chunk.index + 1] = Some(summary)]

\* return [r for r in results if r is not None]
FilterNotNone(results) ==
    LET kept == SelectSeq(results, LAMBDA r : r # None)
    IN [i \in 1 .. Len(kept) |-> Get(kept[i])]

\* asyncio.gather collecting the exceptions of the tasks instead of raising
GatherOutcomeCollected(states) ==
    IF \A i \in DOMAIN states : states[i] \in {"done", "failed"}
    THEN "returned"
    ELSE "pending"

\* await asyncio.gather(*tasks): raises the first exception of a task, and
\* returns once every task has returned.
GatherOutcome(states) ==
    IF \E i \in DOMAIN states : states[i] = "failed" THEN "raised"
    ELSE IF \A i \in DOMAIN states : states[i] = "done" THEN "returned"
    ELSE "pending"

\* ------------------------------------------------------------------------
\* services/merge.py
\* ------------------------------------------------------------------------

\* Insertion of a partial into a list ordered by index, after the partials of
\* the same index (Python's sorted is stable).
RECURSIVE InsertByIndex(_, _)
InsertByIndex(ordered, p) ==
    IF Len(ordered) = 0 THEN <<p>>
    ELSE IF p.index < Head(ordered).index THEN <<p>> \o ordered
    ELSE <<Head(ordered)>> \o InsertByIndex(Tail(ordered), p)

RECURSIVE SortedFrom(_, _)
SortedFrom(partials, ordered) ==
    IF Len(partials) = 0 THEN ordered
    ELSE SortedFrom(Tail(partials), InsertByIndex(ordered, Head(partials)))

\* The partials taken in the order given
SortedByIndexSkipped(partials) == partials

\* ordered = sorted(partials, key=lambda p: p.index)
SortedByIndex(partials) == SortedFrom(partials, << >>)

RECURSIVE SumWordCounts(_)
SumWordCounts(ordered) ==
    IF Len(ordered) = 0 THEN 0
    ELSE Head(ordered).word_count + SumWordCounts(Tail(ordered))

\* merge_partial_summaries: the markdown is the list of sections, each the
\* heading "## Summary of Chunk n" with n = index + 1 and the partial's text.
merge_partial_summaries(partials) ==
    IF Len(partials) = 0
    THEN [markdown |-> << >>, total_summary_words |-> 0, partial_count |-> 0]
    ELSE LET ordered == SortedByIndex(partials)
         IN [markdown |-> [i \in 1 .. Len(ordered) |->
                              [heading |-> ordered[i].index + 1,
                               text |-> ordered[i].text]],
             total_summary_words |-> SumWordCounts(ordered),
             partial_count |-> Len(ordered)]

\* ------------------------------------------------------------------------
\* logic/mode_5.py
\* ------------------------------------------------------------------------

\* Mode5.SMALL_DOCUMENT_DIRECT_THRESHOLD
SMALL_DOCUMENT_DIRECT_THRESHOLD == 500

\* Mode5.DEFAULT_ABSOLUTE_TARGET_WORDS
DEFAULT_ABSOLUTE_TARGET_WORDS == 100

\* round(total_words * 0.20): Python rounds half to even, and a fifth of an
\* integer is never a half.
RoundFifth(n) == IF n % 5 < 3 THEN n \div 5 ELSE (n \div 5) + 1

\* The number of decimal digits of n, written without leading zeros
RECURSIVE Digits(_)
Digits(n) == IF n < 10 THEN 1 ELSE 1 + Digits(n \div 10)

\* An instruction "... in about N words", the number written with `width`
\* digit characters; a width above Digits(N) is a number written with leading
\* zeros.
Instruction(number, width) == [number |-> number, width |-> width]

\* The instruction with the number written as it is usually written
Plain(number) == Instruction(number, Digits(number))

\* The patterns of _extract_target_from_prompt, lines 603-607: each takes a
\* run of two to five digits, delimited by word boundaries, before "word(s)".
PatternMatches(instruction) == 2 <= instruction.width /\ instruction.width <= 5

\* Mode5._extract_target_from_prompt. The instruction is abstracted to the
\* one number it states before "words" (None: no instruction, or none that
\* states a number). A matched number is accepted if it lies between the
\* minimum (5 for a document under 50 words, else 10) and original_words, the
\* word count stored on the instance.
extract_target_from_prompt(prompt_number, original_words) ==
    IF prompt_number = None \/ ~PatternMatches(Get(prompt_number))
    THEN None
    ELSE LET target == Get(prompt_number).number
             min_target == IF original_words < 50 THEN 5 ELSE 10
         IN IF min_target <= target /\ target <= original_words
            THEN Some(target)
            ELSE None

\* The resolution with the target_words parameter taken before the target of
\* the instruction
ResolveTargetParamFirst(total_words, target_words, prompt_target) ==
    IF target_words # None /\ Get(target_words) > 0
    THEN IF Get(target_words) > total_words
         THEN [target |-> total_words, mode |-> "user_absolute_capped"]
         ELSE [target |-> Get(target_words), mode |-> "user_absolute"]
    ELSE IF prompt_target # None
    THEN [target |-> Get(prompt_target), mode |-> "prompt"]
    ELSE IF total_words < SMALL_DOCUMENT_DIRECT_THRESHOLD
         THEN [target |-> DEFAULT_ABSOLUTE_TARGET_WORDS, mode |-> "small_default_100"]
         ELSE [target |-> Min(Max(1, RoundFifth(total_words)), total_words),
               mode |-> "auto_20pct"]

\* The resolution taking every target_words that is not None as given
ResolveTargetAnyParam(total_words, target_words, prompt_target) ==
    IF prompt_target # None
    THEN [target |-> Get(prompt_target), mode |-> "prompt"]
    ELSE IF target_words # None
    THEN IF Get(target_words) > total_words
         THEN [target |-> total_words, mode |-> "user_absolute_capped"]
         ELSE [target |-> Get(target_words), mode |-> "user_absolute"]
    ELSE IF total_words < SMALL_DOCUMENT_DIRECT_THRESHOLD
         THEN [target |-> DEFAULT_ABSOLUTE_TARGET_WORDS, mode |-> "small_default_100"]
         ELSE [target |-> Min(Max(1, RoundFifth(total_words)), total_words),
               mode |-> "auto_20pct"]

\* _process_core, lines 287-311: target_words is None or Some(n), and
\* prompt_target what _extract_target_from_prompt returned.
ResolveTarget(total_words, target_words, prompt_target) ==
    IF prompt_target # None
    THEN [target |-> Get(prompt_target), mode |-> "prompt"]
    ELSE IF target_words # None /\ Get(target_words) > 0
    THEN IF Get(target_words) > total_words
         THEN [target |-> total_words, mode |-> "user_absolute_capped"]
         ELSE [target |-> Get(target_words), mode |-> "user_absolute"]
    ELSE IF total_words < SMALL_DOCUMENT_DIRECT_THRESHOLD
         THEN [target |-> DEFAULT_ABSOLUTE_TARGET_WORDS, mode |-> "small_default_100"]
         ELSE [target |-> Min(Max(1, RoundFifth(total_words)), total_words),
               mode |-> "auto_20pct"]

\* config/settings.py
MIN_EXTRACTED_WORDS == 20

MAX_FINAL_WORDS == 2000

\* compute_baseline_metrics: final_target_words, the override capped at
\* MAX_FINAL_WORDS and raised to MIN_EXTRACTED_WORDS. The call raises on an
\* override that is not positive.
BaselineTarget(final_target_override) ==
    Max(MIN_EXTRACTED_WORDS, Min(final_target_override, MAX_FINAL_WORDS))

\* extract_text, lines 141-146: the ingestion of a file rejects a text of
\* fewer than MIN_EXTRACTED_WORDS words
IngestionRejects(words) == words < MIN_EXTRACTED_WORDS

\* The outcome of a generate call that raises, were the loop to catch the
\* exception and go on to its next iteration
AfterCallFailureRetried(best) == "loop"

\* Lines 404 and 517: await generate(...) stands in no try block, so an
\* exception leaves the loop, the method and _process_core.
AfterCallFailure(best) == "failed"

\* services/formatter.py: fmt = output_format.lower(), over the format strings
\* of the model
Lower(output_format) ==
    CASE output_format = "MARKDOWN" -> "markdown"
      [] output_format = "Plain" -> "plain"
      [] OTHER -> output_format

\* format_output: the dict of the requested format. A key that the dict does
\* not carry is None; the plain rendering of the markdown is not interpreted
\* (markdown_to_plain works on syntax the words of the model do not carry);
\* meta is the set of its keys.
format_output(text, summary_words, original_words, output_format) ==
    LET fmt == Lower(output_format)
        base == [original_words |-> original_words,
                 summary_words |-> summary_words,
                 markdown_summary |-> None,
                 plain_summary |-> None,
                 meta |-> None]
    IN CASE fmt = "markdown" ->
              [base EXCEPT !.markdown_summary = Some(text)]
         [] fmt = "plain" ->
              [base EXCEPT !.plain_summary = Some([plain_of |-> text])]
         [] fmt = "both" ->
              [base EXCEPT !.markdown_summary = Some(text),
                           !.plain_summary = Some([plain_of |-> text])]
         [] OTHER ->
              [base EXCEPT !.markdown_summary = Some(text),
                           !.meta = Some({"output_format_warning"})]

\* The pipeline's metadata assigned over the formatter's meta
MetaReplaced(meta, keys) == Some(keys)

\* _process_core, lines 368-370: result.setdefault('meta', {}) and
\* result['meta'].update({...})
MetaUpdated(meta, keys) ==
    IF meta = None THEN Some(keys) ELSE Some(Get(meta) \cup keys)

\* min_acceptable = int(target_words * 0.92)
MinAcceptable(target) == IntPct(target, 92)

\* max_acceptable = int(target_words * 1.08)
MaxAcceptable(target) == IntPct(target, 108)

\* The acceptance test with both ends of the band excluded
WithinBandStrict(actual_words, target) ==
    MinAcceptable(target) < actual_words /\ actual_words < MaxAcceptable(target)

\* if min_acceptable <= actual_words <= max_acceptable
WithinBand(actual_words, target) ==
    MinAcceptable(target) <= actual_words /\ actual_words <= MaxAcceptable(target)

\* float('inf'), as a value that no deviation takes
Inf == 0 - 1

\* The best attempt overwritten by every attempt
TrackBestLast(best, cleaned_summary, deviation) ==
    [summary |-> Some(cleaned_summary), deviation |-> deviation]

\* if deviation < best_deviation: best_deviation, best_summary = ...
TrackBest(best, cleaned_summary, deviation) ==
    IF best.deviation = Inf \/ deviation < best.deviation
    THEN [summary |-> Some(cleaned_summary), deviation |-> deviation]
    ELSE best

\* utils/validator.py, calculate_max_tokens({"type": "words", "value": v}):
\* the value clamped to [20, 20000], int(value / 0.75), clamped to [60, 8000]
calculate_max_tokens(length_value) ==
    LET clamped == Max(20, Min(length_value, 20000))
        est == (4 * clamped) \div 3
    IN Max(60, Min(est, 8000))

\* The multiplier of _calculate_consistent_token_budget, in tenths
BudgetMultiplier(target_words) ==
    IF target_words <= 100 THEN 18
    ELSE IF target_words <= 300 THEN 19
    ELSE IF target_words <= 500 THEN 20
    ELSE IF target_words <= 1000 THEN 21
    ELSE IF target_words <= 1500 THEN 22
    ELSE 24

\* The cap of _calculate_consistent_token_budget
BudgetCap(target_words) ==
    IF target_words <= 500 THEN 1200
    ELSE IF target_words <= 1000 THEN 2400
    ELSE 6000

\* Mode5._calculate_consistent_token_budget: int(base_tokens * multiplier),
\* capped
calculate_consistent_token_budget(target_words) ==
    Min((calculate_max_tokens(target_words) * BudgetMultiplier(target_words)) \div 10,
        BudgetCap(target_words))

\* _direct_summarize line 402, in hundredths:
\* temperature = 0.2 if attempt == 1 else (0.1 + attempt * 0.05)
DirectTemperature(attempt) == IF attempt = 1 THEN 20 ELSE 10 + attempt * 5

\* _chunked_summarize line 515, in hundredths:
\* temperature = 0.2 if attempt == 1 else 0.15
ChunkedTemperature(attempt) == IF attempt = 1 THEN 20 ELSE 15

\* max_attempts = 3 in _direct_summarize
DirectMaxAttempts == 3

\* max_attempts = 2 in _chunked_summarize
ChunkedMaxAttempts == 2

\* ------------------------------------------------------------------------
\* State
\* ------------------------------------------------------------------------

VARIABLES
    \* a call of plan_chunk_word_spans
    p_pc,            \* "input" before the call, "planned" after, "idle" if none
    p_total,         \* total_words
    p_target,        \* target_words
    p_overlap,       \* overlap_pct, as a percentage
    p_spans,         \* the spans returned
    p_chunks,        \* the chunks chunk_document makes of a text of p_total words
    \* two calls of merge_partial_summaries on the same partials
    m_pc,            \* "input", "merged", or "idle"
    m_partials,      \* the partials in ascending index order
    m_shuffled,      \* the same partials in another order
    m_draft,         \* the draft merged from m_partials
    m_draft_shuffled,\* the draft merged from m_shuffled
    \* one run of Mode5._process_core
    pc,              \* where the pipeline's coroutine stands
    entry,           \* the entry point called: "file" or "raw_text"
    total_words,     \* words of the document, as extracted and as cleaned
    target_words,    \* the target_words parameter: None or Some(n)
    prompt_number,   \* the number of words the instruction states, if any, as written
    output_format,   \* the output_format parameter
    prompt_target,   \* what _extract_target_from_prompt returned
    effective_target,\* the resolved target
    target_mode,     \* how it was resolved
    final_target_words, \* baseline.final_target_words
    chunks,          \* chunk_document's chunks
    task,            \* task[i]: state of the task _one(chunks[i])
    sem,             \* value of the semaphore of summarize_chunks
    results,         \* the pre-sized result slots of summarize_chunks
    partials,        \* what summarize_chunks returned, if it has
    merged,          \* the MergedDraft, once merged
    max_attempts,    \* attempts of the enforcement loop on this path
    attempt,         \* the loop's attempt counter
    best,            \* best_summary and best_deviation
    final_summary,   \* what the enforcement loop returned, if it has
    result,          \* the dict returned by _process_core, if it has
    calls_issued,    \* history: generate calls issued by the enforcement loop
    calls,           \* history: temperature and max_tokens of each of these calls
    attempt_words,   \* history: actual_words counted for each attempt
    late_calls,      \* history: chunk calls started after a chunk call failed
    out_of_order,    \* history: a chunk call returned before one of lower index
    truncation_seen, \* history: the truncation detector fired on an attempt
    \* the per_row fan-out of the handler on one Mode5 instance
    r_request,       \* target_words and the instruction, shared by the rows
    r_words,         \* r_words[i]: words of the text of row i
    r_pc,            \* r_pc[i]: where the task summarize_one(rows[i]) stands
    r_sem,           \* value of the handler's semaphore
    original_words,  \* self.original_words of the instance, None before a call
    r_resolved,      \* r_resolved[i]: what the call of row i resolved, if it has
    \* successive calls of GroqGenerator.generate on one generator
    g_pc,            \* "ready" between calls, "sending" while a request is out
    g_calls,         \* history: the calls made, the running one last
    g_attempt,       \* the attempt counter of the running call's retry loop
    g_cache,         \* the entries of the SimpleCache
    g_now            \* time.time(), in seconds

plan_vars == <<p_pc, p_total, p_target, p_overlap, p_spans, p_chunks>>

merge_vars == <<m_pc, m_partials, m_shuffled, m_draft, m_draft_shuffled>>

request_vars == <<entry, total_words, target_words, prompt_number, output_format>>

doc_vars == <<request_vars, prompt_target, effective_target, target_mode,
              final_target_words>>

batch_vars == <<chunks, task, sem, results, partials, merged, late_calls, out_of_order>>

loop_vars == <<max_attempts, attempt, best, final_summary, calls_issued, calls,
               attempt_words, truncation_seen>>

pipe_vars == <<pc, doc_vars, batch_vars, loop_vars, result>>

rows_vars == <<r_request, r_words, r_pc, r_sem, original_words, r_resolved>>

gen_vars == <<g_pc, g_calls, g_attempt, g_cache, g_now>>

other_vars == <<rows_vars, gen_vars>>

vars == <<plan_vars, merge_vars, pipe_vars, other_vars>>

PlanIdle ==
    /\ p_pc = "idle"
    /\ p_total = 0
    /\ p_target = 0
    /\ p_overlap = 0
    /\ p_spans = << >>
    /\ p_chunks = << >>

MergeIdle ==
    /\ m_pc = "idle"
    /\ m_partials = << >>
    /\ m_shuffled = << >>
    /\ m_draft = None
    /\ m_draft_shuffled = None

PipeIdle ==
    /\ pc = "idle"
    /\ entry = "raw_text"
    /\ total_words = 0
    /\ target_words = None
    /\ prompt_number = None
    /\ output_format = "markdown"
    /\ prompt_target = None
    /\ effective_target = 0
    /\ target_mode = "unresolved"
    /\ final_target_words = 0
    /\ chunks = << >>
    /\ task = << >>
    /\ sem = 0
    /\ results = << >>
    /\ partials = None
    /\ merged = None
    /\ late_calls = 0
    /\ max_attempts = 0
    /\ attempt = 0
    /\ best = [summary |-> None, deviation |-> Inf]
    /\ final_summary = None
    /\ result = None
    /\ calls_issued = 0
    /\ calls = << >>
    /\ attempt_words = << >>
    /\ out_of_order = FALSE
    /\ truncation_seen = FALSE

RowsIdle ==
    /\ r_request = [target_words |-> None, prompt_number |-> None]
    /\ r_words = << >>
    /\ r_pc = << >>
    /\ r_sem = 0
    /\ original_words = None
    /\ r_resolved = << >>

GenIdle ==
    /\ g_pc = "idle"
    /\ g_calls = << >>
    /\ g_attempt = 0
    /\ g_cache = {}
    /\ g_now = 0

OtherIdle == RowsIdle /\ GenIdle

\* ------------------------------------------------------------------------
\* SpecPlan: plan_chunk_word_spans on every input of PlanInputs
\* ------------------------------------------------------------------------

PlanInit ==
    /\ p_pc = "input"
    /\ \E inp \in PlanInputs :
          /\ p_total = inp[1]
          /\ p_target = inp[2]
          /\ p_overlap = inp[3]
    /\ p_spans = << >>
    /\ p_chunks = << >>
    /\ MergeIdle
    /\ PipeIdle
    /\ OtherIdle

\* A call of plan_chunk_word_spans, and one of chunk_document on a text of as
\* many words
PlanSpans ==
    /\ p_pc = "input"
    /\ p_spans' = plan_chunk_word_spans(p_total, p_target, p_overlap)
    /\ p_chunks' = chunk_document(p_total, p_target, p_overlap, 0)
    /\ p_pc' = "planned"
    /\ UNCHANGED <<p_total, p_target, p_overlap, merge_vars, pipe_vars, other_vars>>

PlanNext == PlanSpans

SpecPlan == PlanInit /\ [][PlanNext]_vars

\* ------------------------------------------------------------------------
\* SpecMerge: merge_partial_summaries on a list of partials and on a
\* permutation of it
\* ------------------------------------------------------------------------

\* Bound on the chunk indexes of the partials given to the merger
MaxMergeIndex == 3

\* Bound on the words of a partial given to the merger
MaxMergeWords == 2

\* The partials of a set of chunk indexes, in ascending index order, as
\* summarize_chunks builds them: one partial per index.
RECURSIVE AscendingIndexes(_)
AscendingIndexes(S) ==
    IF S = {} THEN << >>
    ELSE LET lo == CHOOSE x \in S : \A y \in S : x <= y
         IN <<lo>> \o AscendingIndexes(S \ {lo})

IndexPermutations(n) == {f \in [1 .. n -> 1 .. n] : \A i, j \in 1 .. n : f[i] = f[j] => i = j}

MergeInit ==
    /\ m_pc = "input"
    /\ \E S \in SUBSET (0 .. MaxMergeIndex) :
          LET idx == AscendingIndexes(S)
          IN /\ \E wc \in [1 .. Len(idx) -> 1 .. MaxMergeWords] :
                   m_partials = [i \in 1 .. Len(idx) |->
                       PartialSummary([id |-> ChunkId(0, idx[i]), index |-> idx[i]],
                                      [src |-> ChunkId(0, idx[i]), words |-> wc[i]])]
             /\ \E f \in IndexPermutations(Len(idx)) :
                   m_shuffled = [i \in 1 .. Len(idx) |-> m_partials[f[i]]]
    /\ m_draft = None
    /\ m_draft_shuffled = None
    /\ PlanIdle
    /\ PipeIdle
    /\ OtherIdle

\* merge_partial_summaries called on the partials in both orders
MergeBoth ==
    /\ m_pc = "input"
    /\ m_draft' = Some(merge_partial_summaries(m_partials))
    /\ m_draft_shuffled' = Some(merge_partial_summaries(m_shuffled))
    /\ m_pc' = "merged"
    /\ UNCHANGED <<m_partials, m_shuffled, plan_vars, pipe_vars, other_vars>>

MergeNext == MergeBoth

SpecMerge == MergeInit /\ [][MergeNext]_vars

\* ------------------------------------------------------------------------
\* Spec: one run of Mode5._process_core
\* ------------------------------------------------------------------------

\* Bounds of the pipeline's inputs
MaxRequestedTarget == 3

DocSalt == 3

\* Documents below the minimum of the file ingestion: an empty one and one of
\* five words
ShortDocWordChoices == {0, 5}

\* The target_words parameter: None, or a small positive target, or one that
\* a text of LongTexts can miss by less than 15%
RequestedTargets == {None} \cup {Some(n) : n \in (2 .. MaxRequestedTarget) \cup {7}}

\* The output_format parameter: the three formats, two of them in another
\* case, and two strings that name no format
OutputFormats == {"markdown", "plain", "both", "MARKDOWN", "Plain", "structured", ""}

\* The requests <<entry, total_words, target_words, prompt_number,
\* output_format>> of the pipeline runs. The documents have 40 or 499 words
\* (direct path), 500 words (one chunk), 2000 (two chunks) or 4000 (five
\* chunks, more than the semaphore has slots). Every target on a document
\* of the direct path, the default and an explicit target on the chunked path
\* (one of them a target of 4500 words, capped from 20000), the
\* file entry point on both sides of its minimum, every output format, targets
\* that are not positive, and instructions that state a number of words.
Requests ==
    ({"raw_text"} \X {40} \X RequestedTargets \X {None} \X {"markdown"})
    \cup ({"raw_text"} \X (ShortDocWordChoices \cup {499}) \X {None}
        \X {None} \X {"markdown"})
    \cup ({"raw_text"} \X {500, 2000} \X {None, Some(MaxRequestedTarget)}
        \X {None} \X {"markdown"})
    \cup ({"raw_text"} \X {4000} \X {None} \X {None} \X {"markdown"})
    \cup ({"raw_text"} \X {4500} \X {Some(20000)} \X {None} \X {"markdown"})
    \cup ({"file"} \X (ShortDocWordChoices \cup {40, 500}) \X {None}
        \X {None} \X {"markdown"})
    \cup ({"raw_text"} \X {40} \X {Some(MaxRequestedTarget)}
        \X {None} \X OutputFormats)
    \cup ({"raw_text"} \X {40} \X {Some(0 - 1), Some(0)} \X {None} \X {"markdown"})
    \cup ({"raw_text"} \X {0} \X {Some(0)} \X {None} \X {"markdown"})
    \cup ({"raw_text"} \X {40} \X {None, Some(MaxRequestedTarget)}
        \X {Some(Plain(12))} \X {"markdown"})
    \cup ({"raw_text"} \X {40} \X {None}
        \X {Some(Plain(7)), Some(Instruction(7, 2))} \X {"markdown"})
    \cup ({"raw_text"} \X {2000} \X {None} \X {Some(Plain(12))} \X {"markdown"})

\* The state of a run before its first step, whatever the request
RunStart ==
    /\ pc = "start"
    /\ prompt_target = None
    /\ effective_target = 0
    /\ target_mode = "unresolved"
    /\ final_target_words = 0
    /\ chunks = << >>
    /\ task = << >>
    /\ sem = 0
    /\ results = << >>
    /\ partials = None
    /\ merged = None
    /\ late_calls = 0
    /\ max_attempts = 0
    /\ attempt = 0
    /\ best = [summary |-> None, deviation |-> Inf]
    /\ final_summary = None
    /\ result = None
    /\ calls_issued = 0
    /\ calls = << >>
    /\ attempt_words = << >>
    /\ out_of_order = FALSE
    /\ truncation_seen = FALSE
    /\ PlanIdle
    /\ MergeIdle
    /\ OtherIdle

Init ==
    /\ \E req \in Requests :
          /\ entry = req[1]
          /\ total_words = req[2]
          /\ target_words = req[3]
          /\ prompt_number = req[4]
          /\ output_format = req[5]
    /\ RunStart

small_doc == total_words < SMALL_DOCUMENT_DIRECT_THRESHOLD

\* process_document_file, lines 240-248, and process_raw_text, lines 250-255:
\* a file goes through extract_text, which rejects a short text; a raw text is
\* handed to _process_core as it is.
Ingest ==
    /\ pc = "start"
    /\ pc' = IF entry = "file" /\ IngestionRejects(total_words)
             THEN "failed"
             ELSE "ingested"
    /\ UNCHANGED <<doc_vars, batch_vars, loop_vars, result, plan_vars, merge_vars, other_vars>>

\* _process_core, lines 270-326: the text is cleaned and counted, the target
\* resolved, and the baseline computed, which raises on a target that is not
\* positive
ResolveTargetStep ==
    /\ pc = "ingested"
    /\ LET parsed == extract_target_from_prompt(prompt_number, total_words)
           r == ResolveTarget(total_words, target_words, parsed)
       IN /\ prompt_target' = parsed
          /\ effective_target' = r.target
          /\ target_mode' = r.mode
          /\ IF r.target <= 0
             THEN /\ pc' = "failed"
                  /\ UNCHANGED final_target_words
             ELSE /\ pc' = "resolved"
                  /\ final_target_words' = BaselineTarget(r.target)
    /\ UNCHANGED <<request_vars, batch_vars, loop_vars, result,
                   plan_vars, merge_vars, other_vars>>

\* _process_core line 332 and _direct_summarize lines 375-387
StartDirect ==
    /\ pc = "resolved"
    /\ small_doc
    /\ max_attempts' = DirectMaxAttempts
    /\ attempt' = 1
    /\ best' = [summary |-> None, deviation |-> Inf]
    /\ pc' = "loop"
    /\ UNCHANGED <<doc_vars, batch_vars, final_summary, calls_issued, calls,
                   attempt_words, truncation_seen, result, plan_vars, merge_vars, other_vars>>

\* _process_core line 336, _chunked_summarize lines 458-468 and
\* summarize_chunks lines 82-90: the chunks are cut, the semaphore and the
\* result slots made, and one task per chunk handed to asyncio.gather.
StartChunked ==
    /\ pc = "resolved"
    /\ ~small_doc
    /\ LET cs == chunk_document(total_words, CHUNK_TARGET_WORDS,
                                CHUNK_OVERLAP_PCT, DocSalt)
       IN IF Len(cs) = 0
          THEN /\ pc' = "failed"
               /\ UNCHANGED <<chunks, task, sem, results>>
          ELSE /\ chunks' = cs
               /\ task' = [i \in 1 .. Len(cs) |-> "pending"]
               /\ sem' = Concurrency
               /\ results' = [i \in 1 .. Len(cs) |-> None]
               /\ pc' = "gather"
    /\ UNCHANGED <<doc_vars, partials, merged, late_calls, out_of_order,
                   loop_vars, result, plan_vars, merge_vars, other_vars>>

\* _one, line 86: the task enters the semaphore and its generate call starts
Acquire(i) ==
    /\ i \in DOMAIN task
    /\ task[i] = "pending"
    /\ SemaphoreOpen(sem)
    /\ sem' = sem - 1
    /\ task' = [task EXCEPT ![i] = "running"]
    /\ late_calls' = IF \E j \in DOMAIN task : task[j] = "failed"
                     THEN 1 ELSE late_calls
    /\ UNCHANGED <<pc, doc_vars, chunks, results, partials, merged, out_of_order,
                   loop_vars, result, plan_vars, merge_vars, other_vars>>

\* _one, lines 87-88: the generate call returns k words, the PartialSummary is
\* stored in its slot and the semaphore released
ChunkDone(i, k) ==
    /\ i \in DOMAIN task
    /\ task[i] = "running"
    /\ LET content == [src |-> chunks[i].id, words |-> k]
       IN results' = StoreResult(results, chunks[i],
                                 PartialSummary(chunks[i], content))
    /\ sem' = sem + 1
    /\ task' = [task EXCEPT ![i] = "done"]
    /\ out_of_order' = (out_of_order \/ \E j \in 1 .. i - 1 : task[j] # "done")
    /\ UNCHANGED <<pc, doc_vars, chunks, partials, merged, late_calls,
                   loop_vars, result, plan_vars, merge_vars, other_vars>>

\* _one, line 87: the generate call raises; the semaphore is released on the
\* way out of the async with
ChunkFail(i) ==
    /\ i \in DOMAIN task
    /\ task[i] = "running"
    /\ sem' = sem + 1
    /\ task' = [task EXCEPT ![i] = "failed"]
    /\ UNCHANGED <<pc, doc_vars, chunks, results, partials, merged, late_calls,
                   out_of_order, loop_vars, result, plan_vars, merge_vars, other_vars>>

\* summarize_chunks line 90: gather raises the exception of a task, which
\* leaves summarize_chunks, _chunked_summarize and _process_core. The other
\* tasks are not cancelled.
GatherRaises ==
    /\ pc = "gather"
    /\ GatherOutcome(task) = "raised"
    /\ pc' = "failed"
    /\ UNCHANGED <<doc_vars, batch_vars, loop_vars, result, plan_vars, merge_vars, other_vars>>

\* summarize_chunks lines 90-92: every task has returned
GatherReturns ==
    /\ pc = "gather"
    /\ GatherOutcome(task) = "returned"
    /\ partials' = Some(FilterNotNone(results))
    /\ pc' = "merge"
    /\ UNCHANGED <<doc_vars, chunks, task, sem, results, merged, late_calls,
                   out_of_order, loop_vars, result, plan_vars, merge_vars, other_vars>>

\* _chunked_summarize lines 471-485: the partials are merged and the final
\* synthesis loop set up
MergeDraft ==
    /\ pc = "merge"
    /\ merged' = Some(merge_partial_summaries(Get(partials)))
    /\ max_attempts' = ChunkedMaxAttempts
    /\ attempt' = 1
    /\ best' = [summary |-> None, deviation |-> Inf]
    /\ pc' = "loop"
    /\ UNCHANGED <<doc_vars, chunks, task, sem, results, partials, late_calls,
                   out_of_order, final_summary, calls_issued, calls, attempt_words,
                   truncation_seen, result, plan_vars, merge_vars, other_vars>>

\* Lines 389-410 and 487-523: the loop condition holds and the generate call
\* of this attempt is issued, with the token budget of the target and the
\* temperature of the attempt
IssueCall ==
    /\ pc = "loop"
    /\ attempt <= max_attempts
    /\ calls_issued' = calls_issued + 1
    /\ calls' = Append(calls,
           [temperature |-> IF small_doc THEN DirectTemperature(attempt)
                            ELSE ChunkedTemperature(attempt),
            max_tokens |-> calculate_consistent_token_budget(effective_target)])
    /\ pc' = "calling"
    /\ UNCHANGED <<doc_vars, batch_vars, max_attempts, attempt, best,
                   final_summary, attempt_words, truncation_seen, result,
                   plan_vars, merge_vars, other_vars>>

\* Lines 412-421 and 525-534: the text of an attempt after the truncation
\* repair and the clean-up
CleanedSummary(text) == clean_summary_output(RepairIfTruncated(text))

\* Lines 412-432 and 525-545: the call returns a text whose word count is in
\* the acceptance band, and the loop returns it
AttemptAccepted(text) ==
    /\ pc = "calling"
    /\ LET cleaned_summary == CleanedSummary(text)
           actual_words == WordCount(cleaned_summary)
       IN /\ WithinBand(actual_words, effective_target)
          /\ attempt_words' = Append(attempt_words, actual_words)
          /\ final_summary' = Some(cleaned_summary)
    /\ truncation_seen' = (truncation_seen \/ is_summary_truncated(text))
    /\ pc' = "finish"
    /\ UNCHANGED <<doc_vars, batch_vars, max_attempts, attempt, best,
                   calls_issued, calls, result, plan_vars, merge_vars, other_vars>>

\* Lines 412-445 and 525-558: the call returns a text whose word count is
\* outside the band; the best attempt is tracked and the loop goes on
AttemptRejected(text) ==
    /\ pc = "calling"
    /\ LET cleaned_summary == CleanedSummary(text)
           actual_words == WordCount(cleaned_summary)
           deviation == Abs(actual_words - effective_target)
       IN /\ ~WithinBand(actual_words, effective_target)
          /\ attempt_words' = Append(attempt_words, actual_words)
          /\ best' = TrackBest(best, cleaned_summary, deviation)
    /\ truncation_seen' = (truncation_seen \/ is_summary_truncated(text))
    /\ attempt' = attempt + 1
    /\ pc' = "loop"
    /\ UNCHANGED <<doc_vars, batch_vars, max_attempts, final_summary,
                   calls_issued, calls, result, plan_vars, merge_vars, other_vars>>

\* Lines 404 and 517: the generate call raises, and nothing catches it
CallFails ==
    /\ pc = "calling"
    /\ pc' = AfterCallFailure(best)
    /\ UNCHANGED <<doc_vars, batch_vars, loop_vars, result, plan_vars, merge_vars, other_vars>>

\* Lines 447-456 and 560-569: every attempt was outside the band, and the
\* best one is returned
LoopExhausted ==
    /\ pc = "loop"
    /\ attempt > max_attempts
    /\ final_summary' = best.summary
    /\ pc' = "finish"
    /\ UNCHANGED <<doc_vars, batch_vars, max_attempts, attempt, best,
                   calls_issued, calls, attempt_words, truncation_seen, result,
                   plan_vars, merge_vars, other_vars>>

\* _process_core lines 338-371: the summary is formatted and the pipeline's
\* metadata added to the formatter's dict. The fields of
\* meta.length_enforcement, and resolved_target_words of meta.ingest (lines
\* 313-321), stand beside those of the formatter.
Finish ==
    /\ pc = "finish"
    /\ LET text == Get(final_summary)
           actual_words == WordCount(text)
           formatted == format_output(text, actual_words, total_words, output_format)
       IN result' = Some([markdown_summary |-> formatted.markdown_summary,
                          plain_summary |-> formatted.plain_summary,
                          summary_words |-> formatted.summary_words,
                          original_words |-> formatted.original_words,
                          meta |-> MetaUpdated(formatted.meta,
                                               {"ingest", "length_enforcement"}),
                          resolved_target_words |-> effective_target,
                          target_words |-> final_target_words,
                          explicit_target |-> (target_words # None),
                          final_diff |-> Abs(actual_words - final_target_words),
                          approach |-> IF small_doc THEN "direct" ELSE "chunked",
                          truncated |-> FALSE,
                          within_target |->
                              100 * Abs(actual_words - effective_target)
                                  <= 15 * effective_target])
    /\ pc' = "done"
    /\ UNCHANGED <<doc_vars, batch_vars, loop_vars, plan_vars, merge_vars, other_vars>>

Next ==
    \/ Ingest
    \/ ResolveTargetStep
    \/ StartDirect
    \/ StartChunked
    \/ \E i \in 1 .. Len(chunks) : Acquire(i)
    \/ \E i \in 1 .. Len(chunks) : \E k \in 1 .. MaxPartialWords : ChunkDone(i, k)
    \/ \E i \in 1 .. Len(chunks) : ChunkFail(i)
    \/ GatherRaises
    \/ GatherReturns
    \/ MergeDraft
    \/ IssueCall
    \/ \E text \in GeneratedTexts : AttemptAccepted(text)
    \/ \E text \in GeneratedTexts : AttemptRejected(text)
    \/ CallFails
    \/ LoopExhausted
    \/ Finish

Spec == Init /\ [][Next]_vars

\* ------------------------------------------------------------------------
\* SpecResolve: the entry points and the target resolution of _process_core
\* on every combination of document size, target_words and instruction
\* ------------------------------------------------------------------------

\* Word counts around the ingestion minimum, the instruction minimums (5 below
\* 50 words, else 10), the default target of 100, the direct-path threshold
\* and the size whose fifth passes MAX_FINAL_WORDS
ResolveDocWords ==
    {0, 5, 19, 20, 40, 49, 50, 99, 100, 101, 499, 500, 501, 2000, 4000, 10000, 10003}

ResolveTargets ==
    {None} \cup {Some(n) : n \in {0 - 1, 0, 1, 7, 19, 20, 100, 600, 2000, 2001, 20000}}

\* The instructions: none, numbers written as usual, and numbers written
\* with leading zeros
ResolvePromptNumbers ==
    {None}
    \cup {Some(Plain(n)) : n \in {0, 4, 5, 7, 9, 10, 12, 49, 600, 2500, 99999, 100000}}
    \cup {Some(Instruction(n, 2)) : n \in {4, 5, 7, 9}}
    \cup {Some(Instruction(12, 6))}

ResolveInit ==
    /\ entry \in {"file", "raw_text"}
    /\ total_words \in ResolveDocWords
    /\ target_words \in ResolveTargets
    /\ prompt_number \in ResolvePromptNumbers
    /\ output_format = "markdown"
    /\ RunStart

ResolveNext ==
    \/ Ingest
    \/ ResolveTargetStep

SpecResolve == ResolveInit /\ [][ResolveNext]_vars

\* ------------------------------------------------------------------------
\* SpecRows: the per_row mode of the handler, which runs process_raw_text for
\* every row on one Mode5 instance, three at a time
\* ------------------------------------------------------------------------

\* Bound on the rows of a request
MaxRows == 3

\* sem = asyncio.Semaphore(3) of the handler
RowConcurrency == 3

\* Word counts of the rows' texts: on both sides of 50 words, where the
\* minimum of an instruction's number changes, and a large one
RowWordChoices == {8, 40, 600}

\* The target_words and user_prompt of the request, the same for every row
RowRequests ==
    [target_words : {None, Some(30)},
     prompt_number : {None, Some(Plain(12)), Some(Plain(45)), Some(Instruction(7, 2))}]

\* The value that the read of self.original_words at lines 613-614 sees, were
\* another call to run between the write and the read: what the instance held
\* before this call stored its own count
StoredAtReadStale(previous, written) ==
    IF previous = None THEN written ELSE Get(previous)

\* The value that the read of self.original_words at lines 613-614 sees:
\* _process_core stores its count at line 277 and calls
\* _extract_target_from_prompt at line 283 with no await in between, so no
\* other coroutine of the event loop runs between the write and the read.
StoredAtRead(previous, written) == written

RowsInit ==
    /\ r_request \in RowRequests
    /\ \E n \in 2 .. MaxRows :
          /\ r_words \in [1 .. n -> RowWordChoices]
          /\ r_pc = [i \in 1 .. n |-> "waiting"]
          /\ r_resolved = [i \in 1 .. n |-> None]
    /\ r_sem = RowConcurrency
    /\ original_words = None
    /\ GenIdle
    /\ PlanIdle
    /\ MergeIdle
    /\ PipeIdle

\* summarize_one lines 236-238 and _process_core lines 270-326: the task
\* enters the semaphore and runs process_raw_text up to its first await, the
\* generation; the count is stored on the instance and the target resolved.
RowResolve(i) ==
    /\ i \in DOMAIN r_pc
    /\ r_pc[i] = "waiting"
    /\ r_sem > 0
    /\ r_sem' = r_sem - 1
    /\ original_words' = Some(r_words[i])
    /\ LET stored == StoredAtRead(original_words, r_words[i])
           parsed == extract_target_from_prompt(r_request.prompt_number, stored)
           r == ResolveTarget(r_words[i], r_request.target_words, parsed)
       IN r_resolved' = [r_resolved EXCEPT ![i] =
              Some([prompt_target |-> parsed, target |-> r.target, mode |-> r.mode])]
    /\ r_pc' = [r_pc EXCEPT ![i] = "generating"]
    /\ UNCHANGED <<r_request, r_words, gen_vars, plan_vars, merge_vars, pipe_vars>>

\* summarize_one lines 236-254: the call returns or raises, and the task
\* leaves the semaphore with a result or an error entry
RowReturns(i) ==
    /\ i \in DOMAIN r_pc
    /\ r_pc[i] = "generating"
    /\ r_sem' = r_sem + 1
    /\ r_pc' = [r_pc EXCEPT ![i] = "done"]
    /\ UNCHANGED <<r_request, r_words, original_words, r_resolved,
                   gen_vars, plan_vars, merge_vars, pipe_vars>>

RowsNext ==
    \/ \E i \in 1 .. MaxRows : RowResolve(i)
    \/ \E i \in 1 .. MaxRows : RowReturns(i)

SpecRows == RowsInit /\ [][RowsNext]_vars

\* ------------------------------------------------------------------------
\* SpecGen: successive calls of GroqGenerator.generate, with the cache and
\* the retry loop
\* ------------------------------------------------------------------------

\* Bound on the steps of the clock
MaxTicks == 3

\* Seconds of one step of the clock
TickSeconds == 150

\* SimpleCache.__init__: default_ttl
DEFAULT_TTL == 300

\* GroqGenerator.__init__: self.max_retries
max_retries == 3

\* model_configs["llama-3.3-70b-versatile"]: max_tokens, and temperature and
\* top_p in hundredths
MODEL_MAX_TOKENS == 4096

MODEL_TEMPERATURE == 30

MODEL_TOP_P == 90

\* The arguments of a call: the prompts as one string, and temperature and
\* top_p (in hundredths) and max_tokens, each of which may be left out. The
\* model is left out, so self.model is used.
GenArgs ==
    [prompt : {"p"},
     temperature : {None, Some(20), Some(150)},
     top_p : {Some(90)},
     max_tokens : {Some(300), Some(6000)}]
    \cup [prompt : {"q"}, temperature : {Some(20)}, top_p : {None},
          max_tokens : {None}]

\* max(0.0, min(1.0, x)), in hundredths
ClampUnit(x) == Max(0, Min(100, x))

\* generate, lines 83-90: the key of the cache look-up is made of the
\* arguments as they were passed
LookupKey(args) ==
    [prompt |-> args.prompt,
     temperature |-> args.temperature,
     top_p |-> args.top_p,
     max_tokens |-> args.max_tokens]

\* generate, lines 96-112: the request parameters, the defaults of the model
\* overridden by the arguments that were passed, each clamped
RequestParams(args) ==
    [temperature |-> IF args.temperature = None THEN MODEL_TEMPERATURE
                     ELSE ClampUnit(Get(args.temperature)),
     top_p |-> IF args.top_p = None THEN MODEL_TOP_P
               ELSE ClampUnit(Get(args.top_p)),
     max_tokens |-> IF args.max_tokens = None THEN MODEL_MAX_TOKENS
                    ELSE Max(1, Min(MODEL_MAX_TOKENS, Get(args.max_tokens)))]

\* generate, lines 181-189: the key of the store is made of the request
\* parameters
StoreKey(args) ==
    LET params == RequestParams(args)
    IN [prompt |-> args.prompt,
        temperature |-> Some(params.temperature),
        top_p |-> Some(params.top_p),
        max_tokens |-> Some(params.max_tokens)]

\* SimpleCache.get: the entry of the key, unless time.time() > expires_at
CacheGet(cache, key, now) ==
    IF \E e \in cache : e.key = key /\ ~(now > e.expires_at)
    THEN Some((CHOOSE e \in cache : e.key = key).result)
    ELSE None

\* SimpleCache.get deletes the entry it finds expired
CacheAfterGet(cache, key, now) ==
    {e \in cache : ~(e.key = key /\ now > e.expires_at)}

\* SimpleCache.set: the entry of the key is replaced
CacheSet(cache, key, text, now) ==
    {e \in cache : e.key # key}
        \cup {[key |-> key, result |-> text, expires_at |-> now + DEFAULT_TTL]}

\* What the API, or the connection, answers to a request. A response of
\* status 200 carries a text; one of another status carries a body that is
\* either JSON with an error message, which is what str(e) then holds, or
\* not JSON, and then str(e) holds "HTTP <status>: <body>".
Responses ==
    [kind : {"ok"}, text : {"t1", "t2"}]
    \cup [kind : {"timeout", "empty"}]
    \cup [kind : {"http"}, status : {401, 403, 500}, body : {"json_message", "not_json"}]

\* "<code>" in str(e), lines 150-162 and 202: the message names the status when the
\* body was not JSON
MessageNames(response, code) ==
    response.kind = "http" /\ response.body = "not_json" /\ response.status = code

\* Lines 202-203: if "401" in str(e) or "403" in str(e): break
BreaksRetryLoop(response) ==
    MessageNames(response, 401) \/ MessageNames(response, 403)

GenInit ==
    /\ g_pc = "ready"
    /\ g_calls = << >>
    /\ g_attempt = 0
    /\ g_cache = {}
    /\ g_now = 0
    /\ RowsIdle
    /\ PlanIdle
    /\ MergeIdle
    /\ PipeIdle

\* The record of the running call. Its fields: the arguments, the times it
\* started and finished, the requests sent, the outcome and the text returned,
\* and auth_answered, the number of the first request that was answered with
\* status 401 or 403 (0 if none was).
LastCall == g_calls[Len(g_calls)]

AuthAnswered(call, response) ==
    IF call.auth_answered = 0 /\ response.kind = "http" /\ response.status \in {401, 403}
    THEN call.requests
    ELSE call.auth_answered

\* generate, lines 82-140: the cache is looked up; on a hit the cached text
\* is returned, and otherwise the first request is sent
GenCall(args) ==
    /\ g_pc = "ready"
    /\ Len(g_calls) < 2
    /\ LET key == LookupKey(args)
           cached_result == CacheGet(g_cache, key, g_now)
           call == [args |-> args, started |-> g_now, auth_answered |-> 0,
                    requests |-> 0, outcome |-> "pending", text |-> None,
                    finished |-> g_now]
       IN /\ g_cache' = CacheAfterGet(g_cache, key, g_now)
          /\ IF cached_result # None
             THEN /\ g_calls' = Append(g_calls,
                        [call EXCEPT !.outcome = "cached", !.text = cached_result])
                  /\ g_pc' = "ready"
             ELSE /\ g_calls' = Append(g_calls, [call EXCEPT !.requests = 1])
                  /\ g_pc' = "sending"
    /\ g_attempt' = 0
    /\ UNCHANGED <<g_now, rows_vars, plan_vars, merge_vars, pipe_vars>>

\* generate, lines 141-191: the request is answered with a text, which is
\* stored in the cache and returned
GenSucceeds(response) ==
    /\ g_pc = "sending"
    /\ response.kind = "ok"
    /\ g_cache' = CacheSet(g_cache, StoreKey(LastCall.args), response.text, g_now)
    /\ g_calls' = [g_calls EXCEPT ![Len(g_calls)] =
           [@ EXCEPT !.outcome = "generated",
                     !.text = Some(response.text),
                     !.finished = g_now]]
    /\ g_pc' = "ready"
    /\ UNCHANGED <<g_attempt, g_now, rows_vars, plan_vars, merge_vars, pipe_vars>>

\* generate, lines 193-225: the request fails. An HTTP error whose message
\* names 401 or 403 leaves the loop; any other failure is followed by the
\* next attempt, until max_retries attempts were made, and then the call
\* raises.
GenAttemptFails(response) ==
    /\ g_pc = "sending"
    /\ response.kind # "ok"
    /\ IF ~BreaksRetryLoop(response) /\ g_attempt < max_retries - 1
       THEN /\ g_attempt' = g_attempt + 1
            /\ g_calls' = [g_calls EXCEPT ![Len(g_calls)] =
                   [@ EXCEPT !.auth_answered = AuthAnswered(LastCall, response),
                             !.requests = @ + 1]]
            /\ g_pc' = "sending"
       ELSE /\ g_calls' = [g_calls EXCEPT ![Len(g_calls)] =
                   [@ EXCEPT !.auth_answered = AuthAnswered(LastCall, response),
                             !.outcome = "raised",
                             !.finished = g_now]]
            /\ g_pc' = "ready"
            /\ UNCHANGED g_attempt
    /\ UNCHANGED <<g_cache, g_now, rows_vars, plan_vars, merge_vars, pipe_vars>>

\* Time passes between two calls
GenTick ==
    /\ g_pc = "ready"
    /\ g_now < MaxTicks * TickSeconds
    /\ g_now' = g_now + TickSeconds
    /\ UNCHANGED <<g_pc, g_calls, g_attempt, g_cache, rows_vars,
                   plan_vars, merge_vars, pipe_vars>>

GenNext ==
    \/ \E args \in GenArgs : GenCall(args)
    \/ \E response \in Responses : GenSucceeds(response)
    \/ \E response \in Responses : GenAttemptFails(response)
    \/ GenTick

SpecGen == GenInit /\ [][GenNext]_vars

SpanLen(span) == span[2] - span[1]

\* C3: for every total_words >= 0 and overlap_pct in [0,1) the spans returned
\* by plan_chunk_word_spans cover [0, total_words) with no gaps: none for an
\* empty document, and otherwise the first span starts at 0, the last ends at
\* total_words, and every later span starts at or before the end of the span
\* before it.
C3_SpansCoverNoGaps ==
    p_pc = "planned" =>
        IF p_total = 0
        THEN p_spans = << >>
        ELSE /\ Len(p_spans) >= 1
             /\ p_spans[1][1] = 0
             /\ p_spans[Len(p_spans)][2] = p_total
             /\ \A i \in 2 .. Len(p_spans) : p_spans[i][1] <= p_spans[i - 1][2]
             /\ \A w \in 0 .. p_total - 1 :
                    \E i \in 1 .. Len(p_spans) :
                        p_spans[i][1] <= w /\ w < p_spans[i][2]

\* C3 witness: a plan of at least three spans whose neighbours overlap
C3_Witness ==
    /\ p_pc = "planned"
    /\ Len(p_spans) >= 3
    /\ p_spans[2][1] < p_spans[1][2]
    /\ p_spans[Len(p_spans)][2] = p_total

\* C10 as stated: no span returned by plan_chunk_word_spans is longer than the
\* nominal chunk size, end - start <= target_words, also after the tail-merge.
C10_NoSpanExceedsNominal ==
    p_pc = "planned" =>
        \A i \in 1 .. Len(p_spans) : SpanLen(p_spans[i]) <= p_target

\* C10 amended: with T = max(50, target_words), every span but the last is at
\* most T words long, and the last span, which the tail-merge may have
\* extended, is shorter than T + int(0.4 * T).
C10_SpanLengthBound ==
    p_pc = "planned" =>
        LET T == EffectiveChunkTarget(p_target)
        IN \A i \in 1 .. Len(p_spans) :
              /\ i < Len(p_spans) => SpanLen(p_spans[i]) <= T
              /\ SpanLen(p_spans[i]) < T + IntPct(T, 40)

\* C10 witness: a plan whose last span was extended by the tail-merge beyond
\* the nominal chunk size
C10_Witness ==
    /\ p_pc = "planned"
    /\ p_target >= 50
    /\ Len(p_spans) >= 2
    /\ Len(p_spans) < Len(NaiveSpans(p_total, p_target, p_overlap))
    /\ SpanLen(p_spans[Len(p_spans)]) > p_target

\* C11 as stated: for every total_words >= 0 that is at most target_words the
\* planner returns exactly the span (0, total_words) and chunk_document one
\* chunk holding all the words.
C11_SingleSpanFromZero ==
    (p_pc = "planned" /\ p_total <= p_target) =>
        /\ p_spans = << <<0, p_total>> >>
        /\ Len(p_chunks) = 1
        /\ p_chunks[1].word_count = p_total

\* C11, amended: for every total_words >= 1 that is at most target_words the
\* planner returns exactly the span (0, total_words) and chunk_document one
\* chunk, of index 0, holding all the words; for total_words = 0 both return
\* nothing.
C11_SingleSpanWhenFits ==
    (p_pc = "planned" /\ p_total <= p_target) =>
        IF p_total >= 1
        THEN /\ p_spans = << <<0, p_total>> >>
             /\ Len(p_chunks) = 1
             /\ p_chunks[1].index = 0
             /\ p_chunks[1].word_count = p_total
        ELSE /\ p_spans = << >>
             /\ p_chunks = << >>

\* C11 witness: a document of exactly target_words words, above the guardrail
\* of 50, planned as one span
C11_Witness ==
    /\ p_pc = "planned"
    /\ p_total = p_target
    /\ p_target > 50
    /\ Len(p_spans) = 1
    /\ Len(p_chunks) = 1

\* The last span of the naive stride walk
NaiveLast == LET naive == NaiveSpans(p_total, p_target, p_overlap)
             IN naive[Len(naive)]

C1_ResultsInChunkOrder ==
    /\ partials # None =>
          /\ Len(Get(partials)) <= Len(chunks)
          /\ \A i \in 1 .. Len(Get(partials)) :
                /\ Get(partials)[i].index = i - 1
                /\ Get(partials)[i].text.src = chunks[i].id
    /\ merged # None =>
          /\ Len(Get(merged).markdown) <= Len(chunks)
          /\ \A i \in 1 .. Len(Get(merged).markdown) :
                /\ Get(merged).markdown[i].heading = i
                /\ Get(merged).markdown[i].text.src = chunks[i].id

\* C1 witness: a draft merged from a batch of at least three chunks in which
\* a chunk call returned before a call of lower index
C1_Witness ==
    /\ merged # None
    /\ out_of_order
    /\ Len(chunks) >= 3
    /\ Len(Get(merged).markdown) = Len(chunks)

\* C2: at no moment are more than three per-chunk generation calls in flight
C2_AtMostThreeInFlight ==
    Cardinality({i \in DOMAIN task : task[i] = "running"}) <= 3

\* C2 witness: three calls in flight while another chunk waits for a slot
C2_Witness ==
    /\ Cardinality({i \in DOMAIN task : task[i] = "running"}) = 3
    /\ \E i \in DOMAIN task : task[i] = "pending"
    /\ \E i \in DOMAIN task : task[i] = "done"

\* C7: once a per-chunk generation call has failed, summarize_chunks returns
\* no partial summaries, nothing is merged, no synthesis call is issued and
\* the request ends without a result.
C7_ChunkFailureAbortsRequest ==
    (\E i \in DOMAIN task : task[i] = "failed") =>
        /\ partials = None
        /\ merged = None
        /\ calls_issued = 0
        /\ final_summary = None
        /\ result = None
        /\ pc \in {"gather", "failed"}

\* C7 witness: the request has ended in failure with one chunk call failed and
\* the summaries of other chunks already stored
C7_Witness ==
    /\ pc = "failed"
    /\ \E i \in DOMAIN task : task[i] = "failed"
    /\ \E i \in DOMAIN task : task[i] = "done" /\ results[i] # None

\* C8: when every per-chunk call succeeds, summarize_chunks returns exactly
\* one PartialSummary per input chunk, carrying that chunk's id and index.
C8_OnePartialPerChunk ==
    /\ (pc # "gather" /\ Len(chunks) > 0 /\ \A i \in DOMAIN task : task[i] = "done")
          => partials # None
    /\ partials # None =>
          /\ Len(Get(partials)) = Len(chunks)
          /\ \A c \in 1 .. Len(chunks) :
                /\ Cardinality({j \in 1 .. Len(Get(partials)) :
                                   Get(partials)[j].chunk_id = chunks[c].id}) = 1
                /\ \A j \in 1 .. Len(Get(partials)) :
                      Get(partials)[j].chunk_id = chunks[c].id =>
                          Get(partials)[j].index = chunks[c].index

\* C8 witness: summarize_chunks has returned for a batch with more chunks
\* than the semaphore has slots
C8_Witness ==
    /\ partials # None
    /\ Len(chunks) > Concurrency
    /\ Len(Get(partials)) = Len(chunks)
    /\ \A i \in DOMAIN task : task[i] = "done"

\* C9: merging a list of partial summaries and merging any permutation of it
\* give the same markdown and the same total word count.
C9_MergeOrderIndependent ==
    m_pc = "merged" =>
        /\ Get(m_draft_shuffled).markdown = Get(m_draft).markdown
        /\ Get(m_draft_shuffled).total_summary_words = Get(m_draft).total_summary_words
        /\ Get(m_draft_shuffled).partial_count = Get(m_draft).partial_count

\* C9 witness: three or more partials merged from an order in which the first
\* partial given is not the one of lowest index
C9_Witness ==
    /\ m_pc = "merged"
    /\ Len(m_partials) >= 3
    /\ m_shuffled # m_partials
    /\ m_shuffled[1].index > m_shuffled[Len(m_shuffled)].index
    /\ Get(m_draft).partial_count = Len(m_partials)

\* ------------------------------------------------------------------------
\* The enforcement loop
\* ------------------------------------------------------------------------

\* The acceptance band of the specification: [int(0.92 t), int(1.08 t)]
InSpecBand(words, t) == (92 * t) \div 100 <= words /\ words <= (108 * t) \div 100

\* The attempts made so far were all outside the band
AllAttemptsOutOfBand ==
    \A i \in 1 .. Len(attempt_words) : ~InSpecBand(attempt_words[i], effective_target)

C5_BestAttemptReturned ==
    (pc \in {"finish", "done"} /\ Len(attempt_words) = max_attempts
        /\ AllAttemptsOutOfBand) =>
        /\ final_summary # None
        /\ \E i \in 1 .. Len(attempt_words) :
              WordCount(Get(final_summary)) = attempt_words[i]
        /\ \A i \in 1 .. Len(attempt_words) :
              Abs(WordCount(Get(final_summary)) - effective_target)
                  <= Abs(attempt_words[i] - effective_target)

\* C5 witness: the loop is exhausted and the attempt returned is closer to the
\* target than both the first and the last attempt
C5_Witness ==
    /\ pc = "done"
    /\ Len(attempt_words) = max_attempts
    /\ max_attempts = DirectMaxAttempts
    /\ AllAttemptsOutOfBand
    /\ Abs(Get(result).summary_words - effective_target)
          < Abs(attempt_words[1] - effective_target)
    /\ Abs(Get(result).summary_words - effective_target)
          < Abs(attempt_words[Len(attempt_words)] - effective_target)

\* C6: the attempts are made one after the other, a call being issued only
\* after every earlier attempt was counted and found outside the band
\* [int(0.92 t), int(1.08 t)]; an attempt inside the band is returned at once,
\* with no further call.
C6_SequentialFirstInBandReturned ==
    /\ calls_issued <= max_attempts
    /\ pc = "calling" =>
          /\ calls_issued = Len(attempt_words) + 1
          /\ AllAttemptsOutOfBand
    /\ pc \notin {"calling", "failed"} => calls_issued = Len(attempt_words)
    /\ pc = "failed" => calls_issued \in {Len(attempt_words), Len(attempt_words) + 1}
    /\ \A i \in 1 .. Len(attempt_words) - 1 :
          ~InSpecBand(attempt_words[i], effective_target)
    /\ (Len(attempt_words) > 0
          /\ InSpecBand(attempt_words[Len(attempt_words)], effective_target)) =>
          /\ pc \in {"finish", "done"}
          /\ final_summary # None
          /\ WordCount(Get(final_summary)) = attempt_words[Len(attempt_words)]
    /\ (pc = "loop" /\ attempt <= max_attempts) => AllAttemptsOutOfBand

\* C6 witness: a second attempt fell inside the band after a first one fell
\* outside, and was returned with an attempt of the loop left unused
C6_Witness ==
    /\ pc = "done"
    /\ calls_issued = 2
    /\ max_attempts = DirectMaxAttempts
    /\ Len(attempt_words) = 2
    /\ ~InSpecBand(attempt_words[1], effective_target)
    /\ InSpecBand(attempt_words[2], effective_target)
    /\ Get(result).summary_words = attempt_words[2]

\* ------------------------------------------------------------------------
\* Target resolution
\* ------------------------------------------------------------------------

\* The resolution has run
Resolved == target_mode # "unresolved"

\* The target and mode that apply when neither the instruction nor the
\* parameter gives a target: 100 words for a small document, a fifth of the
\* words, rounded, for a large one
DefaultTargetApplies ==
    IF total_words < 500
    THEN effective_target = 100 /\ target_mode = "small_default_100"
    ELSE effective_target = (2 * total_words + 5) \div 10 /\ target_mode = "auto_20pct"

C14_TargetAtMostOriginalWords ==
    Resolved => effective_target <= total_words

\* C15 as stated: in every resolution mode the target handed to the
\* enforcement loop lies between MIN_EXTRACTED_WORDS and MAX_FINAL_WORDS.
C15_TargetWithinFloorAndCeiling ==
    pc = "resolved" => (20 <= effective_target /\ effective_target <= 2000)

\* C19: a target_words that is zero or negative is handled as if none had
\* been given: the target and the mode are those of the instruction, if it
\* gives an accepted target, and else the default, and the resolution ends in
\* no error.
C19_NonPositiveTargetIsNoTarget ==
    (Resolved /\ target_words # None /\ Get(target_words) <= 0) =>
        /\ pc = "resolved"
        /\ IF prompt_target # None
           THEN effective_target = Get(prompt_target) /\ target_mode = "prompt"
           ELSE DefaultTargetApplies

\* C19 witness: a negative target_words resolved to the default of a small
\* document
C19_Witness ==
    /\ pc = "resolved"
    /\ target_words # None
    /\ Get(target_words) < 0
    /\ target_mode = "small_default_100"
    /\ effective_target = 100

\* ------------------------------------------------------------------------
\* Failures and the result's metadata
\* ------------------------------------------------------------------------

\* C16 as stated: whenever the loop has used up its attempts with none inside
\* the band, a result is returned and its within_target is false.
C16_ExhaustedMeansNotWithinTarget ==
    (pc = "done" /\ Len(attempt_words) = max_attempts /\ AllAttemptsOutOfBand) =>
        /\ result # None
        /\ Get(result).within_target = FALSE

\* C17: when the generation call of an enforcement attempt fails, the run
\* ends in failure at once: no attempt is counted, no further call is issued
\* and no result or summary is returned, then or later.
C17_CallFailurePropagates ==
    [][/\ (pc = "calling" /\ attempt_words' = attempt_words /\ pc' # "calling") =>
              /\ pc' = "failed"
              /\ calls_issued' = calls_issued
              /\ final_summary' = None
              /\ result' = None
       /\ pc = "failed" =>
              /\ pc' = "failed"
              /\ calls_issued' = calls_issued
              /\ final_summary' = None
              /\ result' = None]_vars

\* C17 witness: a generation call failed after an earlier attempt had left a
\* best-so-far summary
C17_Witness ==
    /\ pc = "failed"
    /\ calls_issued = Len(attempt_words) + 1
    /\ Len(attempt_words) >= 1
    /\ best.summary # None
    /\ result = None

\* C18 as stated: a document of fewer than 20 words ends in an error before
\* any generation call, whichever the entry point.
C18_ShortDocumentRejected ==
    total_words < 20 =>
        /\ calls_issued = 0
        /\ pc \notin {"loop", "calling", "finish", "done"}
        /\ result = None

\* The output_format strings that name a format, in the cases the model uses
KnownFormatStrings == {"markdown", "plain", "both", "MARKDOWN", "Plain"}

\* C20: for an output_format that names no format the run ends with a
\* result, which carries the markdown summary unchanged and whose meta holds
\* output_format_warning beside the pipeline's own metadata.
C20_UnknownFormatFallsBack ==
    (output_format \notin KnownFormatStrings /\ pc = "done") =>
        /\ result # None
        /\ Get(result).markdown_summary = final_summary
        /\ Get(result).meta # None
        /\ {"output_format_warning", "ingest", "length_enforcement"}
              \subseteq Get(Get(result).meta)

\* C20 witness: a result returned for the format string "structured"
C20_Witness ==
    /\ pc = "done"
    /\ output_format = "structured"
    /\ result # None
    /\ Get(result).markdown_summary # None
    /\ Get(result).summary_words > 0
    /\ "output_format_warning" \in Get(Get(result).meta)

\* ------------------------------------------------------------------------
\* Concurrent calls on one instance
\* ------------------------------------------------------------------------

\* C22: when process_raw_text runs for several rows at once on one Mode5
\* instance, every call resolves its target, the range check of the
\* instruction's number included, against the word count of its own text,
\* whatever count the instance holds from another call.
C22_RowResolvesAgainstOwnWords ==
    \A i \in DOMAIN r_resolved :
        r_resolved[i] # None =>
            LET own == extract_target_from_prompt(r_request.prompt_number, r_words[i])
                r == ResolveTarget(r_words[i], r_request.target_words, own)
            IN /\ Get(r_resolved[i]).prompt_target = own
               /\ Get(r_resolved[i]).target = r.target
               /\ Get(r_resolved[i]).mode = r.mode

\* C22 witness: two calls are in flight, the instance holds the count of the
\* other call's text, and against that count the instruction's number would
\* have been judged differently
C22_Witness ==
    \E i, j \in DOMAIN r_pc :
        /\ i # j
        /\ r_pc[i] = "generating"
        /\ r_pc[j] = "generating"
        /\ original_words = Some(r_words[j])
        /\ r_words[i] # r_words[j]
        /\ Get(r_resolved[i]).prompt_target # None
        /\ extract_target_from_prompt(r_request.prompt_number, r_words[j]) = None

\* ------------------------------------------------------------------------
\* GroqGenerator.generate
\* ------------------------------------------------------------------------

\* C28 as stated: a call whose attempt is answered with HTTP 401 or 403 makes
\* no further attempt and fails, and any call makes at most max_retries
\* attempts.
C28_AuthErrorStopsRetries ==
    \A c \in DOMAIN g_calls :
        /\ g_calls[c].requests <= 3
        /\ g_calls[c].auth_answered # 0 =>
               /\ g_calls[c].requests = g_calls[c].auth_answered
               /\ g_calls[c].outcome = "raised"

\* C29 as stated: of two calls with identical arguments, the second made
\* within the TTL after the first succeeded, only the first issues an API
\* request, and the second returns the text the first one cached.
C29_SecondCallServedFromCache ==
    (/\ Len(g_calls) = 2
     /\ g_calls[2].args = g_calls[1].args
     /\ g_calls[1].outcome = "generated"
     /\ g_calls[2].started <= g_calls[1].finished + 300
     /\ g_calls[2].outcome # "pending") =>
        /\ g_calls[2].requests = 0
        /\ g_calls[2].outcome = "cached"
        /\ g_calls[2].text = g_calls[1].text

\* ------------------------------------------------------------------------
\* Arguments of the enforcement calls
\* ------------------------------------------------------------------------

\* The words-to-tokens estimate of a target: floor(target / 0.75)
TokenEstimate(target) == (4 * target) \div 3

\* C25 as stated: the token budget passed to every enforcement call is above
\* the words-to-tokens estimate of the target the loop works toward.
C25_BudgetAboveTokenEstimate ==
    \A i \in 1 .. Len(calls) : calls[i].max_tokens > TokenEstimate(effective_target)

\* C26 as stated: in both enforcement loops the temperature of an attempt
\* after the first is at most the temperature of the attempt before it.
C26_TemperatureNeverRises ==
    \A k \in 2 .. Len(calls) : calls[k].temperature <= calls[k - 1].temperature

\* ------------------------------------------------------------------------
\* Metadata, path and batch
\* ------------------------------------------------------------------------

\* C21 as stated: the truncated field of a result's metadata is true exactly
\* when the truncation detector fired on some enforcement attempt of the run.
C21_TruncatedFieldRecordsRepair ==
    result # None => (Get(result).truncated <=> truncation_seen)

\* C23 as stated: a document of 500 words or fewer is summarized directly
\* with no chunking, a longer one is chunked, and the approach of the
\* metadata names the path taken.
C23_DirectUpToFiveHundredWords ==
    /\ total_words <= 500 => (chunks = << >> /\ pc # "gather")
    /\ result # None =>
          Get(result).approach = IF total_words <= 500 THEN "direct" ELSE "chunked"

\* C24 as stated: once the generation call of a chunk has failed, no
\* generation call of another chunk of the batch is started.
C24_NoChunkCallAfterFailure ==
    late_calls = 0

\* C27 as stated: a number N that the instruction states is accepted as the
\* target exactly when it lies between the minimum (5 for a document under 50
\* words, else 10) and the document's word count.
C27_PromptTargetAcceptedInRange ==
    (Resolved /\ prompt_number # None) =>
        LET N == Get(prompt_number).number
            minAllowed == IF total_words < 50 THEN 5 ELSE 10
        IN IF minAllowed <= N /\ N <= total_words
           THEN prompt_target = Some(N) /\ effective_target = N
           ELSE prompt_target = None /\ target_mode # "prompt"

\* C30 as stated: the target_words of meta.length_enforcement equals the
\* resolved_target_words of meta.ingest, the target of the enforcement loop,
\* and final_diff is the distance of summary_words from that target.
C30_MetaTargetIsLoopTarget ==
    result # None =>
        /\ Get(result).target_words = Get(result).resolved_target_words
        /\ Get(result).resolved_target_words = effective_target
        /\ Get(result).final_diff = Abs(Get(result).summary_words - effective_target)

====
